---- MODULE Spec2Model ----
(***************************************************************************)
(* Model of gss_app_update.py: the Grazing Suitability Score pipeline      *)
(* (calculate_gss with its nested diagnose), the recommendation helpers    *)
(* and the Streamlit handler main.                                         *)
(*                                                                         *)
(* Numbers are exact rationals <<n, d>> with d > 0, every result of the    *)
(* arithmetic in lowest terms; <<0, 0>> is NaN.  IEEE rounding of the      *)
(* floating-point arithmetic is not modelled.  A table cell is a record    *)
(* [n, d, s]: a number n/d when s = "", the text s otherwise; a number     *)
(* with d = 0 is NaN, which is what pandas treats as a missing value.      *)
(***************************************************************************)
EXTENDS Integers, Sequences, FiniteSets, TLC

VARIABLES pc, df, weights, result, scaled_df, errors, outputs, calcCalls,
          recommendation, language, voice, crashed, row, label

vars == <<pc, df, weights, result, scaled_df, errors, outputs, calcCalls,
          recommendation, language, voice, crashed, row, label>>

(***************************************************************************)
(* Bounds of the model.                                                    *)
(***************************************************************************)
\* Largest number of rows of a table of two-level rows.
MaxRows == 2
\* Raw feature values range over Base..Base+Grade.
Base == 5
Grade == 10
\* The diagnose inputs lie 1/Resolution off each threshold.
Resolution == 100

(***************************************************************************)
(* Exact rational arithmetic with NaN.                                     *)
(***************************************************************************)
NaN == <<0, 0>>
Zero == <<0, 1>>
One == <<1, 1>>

IsNaN(x) == x[2] = 0

Abs(n) == IF n < 0 THEN -n ELSE n

RECURSIVE Gcd(_, _)
Gcd(a, b) == IF b = 0 THEN a ELSE Gcd(b, a % b)

Norm(n, d) ==
    IF d = 0 THEN NaN
    ELSE LET s == IF d < 0 THEN -1 ELSE 1
             g == Gcd(Abs(n), Abs(d))
         IN  <<(s * n) \div g, (s * d) \div g>>

RAdd(a, b) == IF IsNaN(a) \/ IsNaN(b) THEN NaN
              ELSE Norm(a[1] * b[2] + b[1] * a[2], a[2] * b[2])
RSub(a, b) == IF IsNaN(a) \/ IsNaN(b) THEN NaN
              ELSE Norm(a[1] * b[2] - b[1] * a[2], a[2] * b[2])
RMul(a, b) == IF IsNaN(a) \/ IsNaN(b) THEN NaN
              ELSE Norm(a[1] * b[1], a[2] * b[2])
\* numpy division: x/0 is inf or NaN, never an exception; both are rendered NaN.
RDiv(a, b) == IF IsNaN(a) \/ IsNaN(b) \/ b[1] = 0 THEN NaN
              ELSE Norm(a[1] * b[2], a[2] * b[1])
\* Every comparison with NaN is false.
RLt(a, b) == ~IsNaN(a) /\ ~IsNaN(b) /\ a[1] * b[2] < b[1] * a[2]
RLe(a, b) == ~IsNaN(a) /\ ~IsNaN(b) /\ a[1] * b[2] <= b[1] * a[2]
RGt(a, b) == RLt(b, a)
REq(a, b) == ~IsNaN(a) /\ ~IsNaN(b) /\ a[1] * b[2] = b[1] * a[2]

(***************************************************************************)
(* Tables (pandas DataFrame): the set of column names, the row labels      *)
(* (index) and the rows, each a function from column name to cell.         *)
(***************************************************************************)
Num(n) == [n |-> n, d |-> 1, s |-> ""]
RatCell(q) == [n |-> q[1], d |-> q[2], s |-> ""]
Text(t) == [n |-> 0, d |-> 0, s |-> t]
NullCell == [n |-> 0, d |-> 0, s |-> ""]
IsText(c) == c.s # ""
IsNull(c) == c.s = "" /\ c.d = 0
CellRat(c) == <<c.n, c.d>>

Range(s) == {s[i] : i \in 1..Len(s)}

\* The sequence <<Op(1), ..., Op(n)>>.
RECURSIVE SeqOf(_, _)
SeqOf(Op(_), n) == IF n = 0 THEN <<>> ELSE Append(SeqOf(Op, n - 1), Op(n))
\* The 4-tuple over the feature columns.
PerFeature(Op(_)) == <<Op(1), Op(2), Op(3), Op(4)>>
RangeIndex(n) == [i \in 1..n |-> i - 1]

\* pd.DataFrame()
EmptyTable == [cols |-> {}, index |-> <<>>, rows |-> <<>>]
\* DataFrame.empty: some axis has length 0.
IsEmpty(t) == t.cols = {} \/ Len(t.rows) = 0

Features == <<"available_biomass", "Shrub %", "grazing_pressure", "total woody count">>

\* The default weights of calculate_gss; NoWeights is weights=None.
NoWeights == [none |-> TRUE]
DefaultWeights == [biomass |-> <<4, 10>>, shrub |-> <<2, 10>>,
                   grazing |-> <<2, 10>>, woody |-> <<2, 10>>]

\* The thresholds of diagnose.
VeryLow == <<3, 10>>
Poor == <<5, 10>>
Moderate == <<75, 100>>
\* Variant: a cause is named only above 0.8.
CauseLevel_high == <<8, 10>>
CauseLevel == <<7, 10>>

(***************************************************************************)
(* diagnose: the nested function of calculate_gss, on a row of scaled_df.  *)
(***************************************************************************)
\* Variant: the grazing cause is tested before the shrub cause.
diagnose_grazing_first(r) ==
    IF RLt(r.GSS, VeryLow)
    THEN IF RGt(r.grazing_raw, CauseLevel) THEN "Excessive grazing pressure"
         ELSE IF RGt(r.shrub_raw, CauseLevel) THEN "Too much shrub cover"
         ELSE IF RGt(r.woody_raw, CauseLevel) THEN "High woody plant density"
         ELSE "Very low biomass"
    ELSE IF RLt(r.GSS, Poor) THEN "Poor condition, needs intervention"
    ELSE IF RLt(r.GSS, Moderate) THEN "Moderately suitable"
    ELSE "Highly suitable"

diagnose(r) ==
    IF RLt(r.GSS, VeryLow)
    THEN IF RGt(r.shrub_raw, CauseLevel) THEN "Too much shrub cover"
         ELSE IF RGt(r.grazing_raw, CauseLevel) THEN "Excessive grazing pressure"
         ELSE IF RGt(r.woody_raw, CauseLevel) THEN "High woody plant density"
         ELSE "Very low biomass"
    ELSE IF RLt(r.GSS, Poor) THEN "Poor condition, needs intervention"
    ELSE IF RLt(r.GSS, Moderate) THEN "Moderately suitable"
    ELSE "Highly suitable"

(***************************************************************************)
(* sklearn's MinMaxScaler().fit_transform on the selected columns.         *)
(* data is a sequence of rows, each a 4-tuple of cells in Features order.  *)
(***************************************************************************)
\* np.nanmin / np.nanmax of a column: NaN entries are skipped; NaN if none is left.
ColumnValues(data, j) == {CellRat(data[i][j]) : i \in {k \in 1..Len(data) : ~IsNull(data[k][j])}}
NanMin(data, j) ==
    LET vs == ColumnValues(data, j)
    IN  IF vs = {} THEN NaN ELSE CHOOSE m \in vs : \A v \in vs : RLe(m, v)
NanMax(data, j) ==
    LET vs == ColumnValues(data, j)
    IN  IF vs = {} THEN NaN ELSE CHOOSE m \in vs : \A v \in vs : RLe(v, m)

\* Variant: the range is used as it is, so a constant column divides by zero.
HandleZerosInScale_none(range) == range
\* _handle_zeros_in_scale: a zero range is replaced by 1.
HandleZerosInScale(range) == IF REq(range, Zero) THEN One ELSE range

\* Variant: scaling by the largest value alone.
Fit_max_only(data) ==
    [scale_ |-> PerFeature(LAMBDA j : RDiv(One, NanMax(data, j))),
     min_ |-> PerFeature(LAMBDA j : Zero)]
\* fit: scale_ = (1 - 0) / handle_zeros(data_max - data_min) and
\* min_ = 0 - data_min * scale_, per column.
Fit(data) ==
    LET scale == PerFeature(LAMBDA j :
                    RDiv(One, HandleZerosInScale(RSub(NanMax(data, j), NanMin(data, j)))))
    IN  [scale_ |-> scale,
         min_ |-> PerFeature(LAMBDA j : RSub(Zero, RMul(NanMin(data, j), scale[j])))]

\* check_array rejects an array with no sample and one that is not numeric.
ScalerRejects(data) ==
    \/ Len(data) = 0
    \/ \E i \in 1..Len(data) : \E j \in 1..4 : IsText(data[i][j])

\* transform: X * scale_ + min_
FitTransform(data) ==
    LET fit == Fit(data)
    IN  SeqOf(LAMBDA i : PerFeature(LAMBDA j :
                RAdd(RMul(CellRat(data[i][j]), fit.scale_[j]), fit.min_[j])),
              Len(data))

(***************************************************************************)
(* The steps of calculate_gss.                                             *)
(***************************************************************************)
\* df[[...]] raises KeyError when a column is absent.
HasFeatureColumns(t) == Range(Features) \subseteq t.cols
SelectFeatures(t) ==
    SeqOf(LAMBDA i : PerFeature(LAMBDA j : t.rows[i][Features[j]]), Len(t.rows))

\* Variant: the three inversions are written the wrong way round.
Score_swapped(s, w) ==
    LET shrub_score == RSub(s[2], One)
        grazing_score == RSub(s[3], One)
        woody_score == RSub(s[4], One)
    IN  [biomass_score |-> s[1], shrub_raw |-> s[2], grazing_raw |-> s[3],
         woody_raw |-> s[4], shrub_score |-> shrub_score,
         grazing_score |-> grazing_score, woody_score |-> woody_score,
         GSS |-> RAdd(RAdd(RAdd(RMul(w.biomass, s[1]), RMul(w.shrub, shrub_score)),
                           RMul(w.grazing, grazing_score)),
                      RMul(w.woody, woody_score))]
\* One row of scaled_df: the scaled columns, the three inverted scores, GSS.
Score(s, w) ==
    LET shrub_score == RSub(One, s[2])
        grazing_score == RSub(One, s[3])
        woody_score == RSub(One, s[4])
    IN  [biomass_score |-> s[1], shrub_raw |-> s[2], grazing_raw |-> s[3],
         woody_raw |-> s[4], shrub_score |-> shrub_score,
         grazing_score |-> grazing_score, woody_score |-> woody_score,
         GSS |-> RAdd(RAdd(RAdd(RMul(w.biomass, s[1]), RMul(w.shrub, shrub_score)),
                           RMul(w.grazing, grazing_score)),
                      RMul(w.woody, woody_score))]

WithDiagnosis(r) ==
    [f \in DOMAIN r \cup {"Diagnosis"} |-> IF f = "Diagnosis" THEN diagnose(r) ELSE r[f]]

\* scaled_df after line 103; a fresh DataFrame carries a RangeIndex.
ScaledRows(t, w) ==
    LET scaled == FitTransform(SelectFeatures(t))
    IN  SeqOf(LAMBDA i : WithDiagnosis(Score(scaled[i], w)), Len(scaled))

\* scaled_df[['GSS', 'Diagnosis']] as a table.
ScoreTable(rows) ==
    [cols |-> {"GSS", "Diagnosis"},
     index |-> RangeIndex(Len(rows)),
     rows |-> SeqOf(LAMBDA i : [GSS |-> RatCell(rows[i].GSS),
                                Diagnosis |-> Text(rows[i].Diagnosis)],
                    Len(rows))]

\* df.reset_index(drop=True)
ResetIndex(t) == [t EXCEPT !.index = RangeIndex(Len(t.rows))]

\* pd.concat([a, b], axis=1): rows are matched by label; a label one side
\* lacks gets NaN there.  Labels are unique in every table of the model.
Position(t, l) == CHOOSE i \in 1..Len(t.index) : t.index[i] = l
CellAt(t, l, c) == IF l \in Range(t.index) THEN t.rows[Position(t, l)][c] ELSE NullCell
Concat(a, b) ==
    LET extra == SelectSeq(b.index, LAMBDA l : l \notin Range(a.index))
        labels == a.index \o extra
    IN  [cols |-> a.cols \cup b.cols,
         index |-> labels,
         rows |-> SeqOf(LAMBDA k : [c \in a.cols \cup b.cols |->
                                       IF c \in b.cols THEN CellAt(b, labels[k], c)
                                       ELSE CellAt(a, labels[k], c)],
                        Len(labels))]

\* Variant: the caller's row labels are kept.
Assemble_keep_index(t, rows) == Concat(t, ScoreTable(rows))
\* Line 104.
Assemble(t, rows) == Concat(ResetIndex(t), ScoreTable(rows))

\* Variant: the except branch hands the input table back.
calculate_gss_returns_input(t, wts) ==
    LET w == IF wts = NoWeights THEN DefaultWeights ELSE wts
    IN  IF ~HasFeatureColumns(t) \/ ScalerRejects(SelectFeatures(t))
        THEN [result |-> t, scaled |-> <<>>,
              errors |-> <<"Error during GSS calculation", "traceback">>]
        ELSE LET rows == ScaledRows(t, w)
             IN  [result |-> Assemble(t, rows), scaled |-> rows, errors |-> <<>>]
\* calculate_gss: the table returned, scaled_df as it stood at the return,
\* and the messages passed to st.error.
calculate_gss(t, wts) ==
    LET w == IF wts = NoWeights THEN DefaultWeights ELSE wts
    IN  IF ~HasFeatureColumns(t) \/ ScalerRejects(SelectFeatures(t))
        THEN [result |-> EmptyTable, scaled |-> <<>>,
              errors |-> <<"Error during GSS calculation", "traceback">>]
        ELSE LET rows == ScaledRows(t, w)
             IN  [result |-> Assemble(t, rows), scaled |-> rows, errors |-> <<>>]

(***************************************************************************)
(* Input tables.                                                           *)
(***************************************************************************)
PlotNames == <<"P1", "P2", "P3", "P4">>
AllColumns == {"Plot Name"} \cup Range(Features)

\* The row of plot k whose features lie f[1..4] above the lowest raw value.
PlotRow(k, f) ==
    [c \in AllColumns |->
        IF c = "Plot Name" THEN Text(PlotNames[k])
        ELSE Num(Base + f[CHOOSE j \in 1..4 : Features[j] = c])]

TableOf(fs) ==
    [cols |-> AllColumns, index |-> RangeIndex(Len(fs)),
     rows |-> [k \in 1..Len(fs) |-> PlotRow(k, fs[k])]]

\* Tables of at most MaxRows rows whose features sit at the two ends of the scale.
SmallTables ==
    UNION {{TableOf(fs) : fs \in [1..n -> [1..4 -> {0, Grade}]]} : n \in 0..MaxRows}

\* Three rows: all features lowest, all highest, and one row anywhere between.
GradedTables ==
    {TableOf(<<[j \in 1..4 |-> 0], [j \in 1..4 |-> Grade], f>>) : f \in [1..4 -> 0..Grade]}

\* Row labels a caller's table may carry: 0..n-1, reversed, or 1..n.
IndexChoices(n) ==
    {RangeIndex(n), [i \in 1..n |-> n - i], [i \in 1..n |-> i]}

W(b, s, g, w) == [biomass |-> b, shrub |-> s, grazing |-> g, woody |-> w]
Half == <<1, 2>>
Quarter == <<1, 4>>
WeightChoices ==
    {NoWeights,
     W(One, Zero, Zero, Zero), W(Zero, One, Zero, Zero),
     W(Zero, Zero, One, Zero), W(Zero, Zero, Zero, One),
     W(Quarter, Quarter, Quarter, Quarter), W(Half, Zero, Half, Zero),
     W(One, One, Zero, Zero), W(<<3, 2>>, <<-1, 2>>, Zero, Zero)}
GradedWeights == {NoWeights, W(One, Zero, Zero, Zero)}

NoRow == [GSS |-> Zero, shrub_raw |-> Zero, grazing_raw |-> Zero, woody_raw |-> Zero]

\* The variables a specification does not use stay as they are here.
Idle ==
    /\ errors = <<>>
    /\ outputs = {}
    /\ calcCalls = 0
    /\ recommendation = ""
    /\ language = ""
    /\ voice = ""
    /\ crashed = FALSE
    /\ result = EmptyTable
    /\ scaled_df = <<>>

(***************************************************************************)
(* SpecCalc: calculate_gss called on a table with a weight configuration.  *)
(***************************************************************************)
InitCalc ==
    /\ pc = "call"
    /\ \/ /\ df \in SmallTables
          /\ weights \in WeightChoices
       \/ /\ \E t \in SmallTables : \E ix \in IndexChoices(Len(t.rows)) :
                df = [t EXCEPT !.index = ix]
          /\ weights = NoWeights
       \/ /\ df \in GradedTables
          /\ weights \in GradedWeights
    /\ row = NoRow
    /\ label = ""
    /\ Idle

CalculateGss ==
    /\ pc = "call"
    /\ LET r == calculate_gss(df, weights)
       IN  /\ result' = r.result
           /\ scaled_df' = r.scaled
           /\ errors' = errors \o r.errors
    /\ calcCalls' = calcCalls + 1
    /\ pc' = "returned"
    /\ UNCHANGED <<df, weights, outputs, recommendation, language, voice, crashed, row, label>>

NextCalc == CalculateGss
SpecCalc == InitCalc /\ [][NextCalc]_vars

(***************************************************************************)
(* SpecDiagnose: diagnose applied to one row of scores.                    *)
(***************************************************************************)
Eps == <<1, Resolution>>
Around(t) == {RSub(t, Eps), t, RAdd(t, Eps)}
GssPoints == {Zero, One} \cup Around(<<3, 10>>) \cup Around(<<1, 2>>) \cup Around(<<3, 4>>)
CausePoints == {Zero, One} \cup Around(<<7, 10>>)

InitDiagnose ==
    /\ pc = "diagnose"
    /\ row \in [GSS : GssPoints, shrub_raw : CausePoints,
                grazing_raw : CausePoints, woody_raw : CausePoints]
    /\ label = ""
    /\ df = EmptyTable
    /\ weights = NoWeights
    /\ Idle

Diagnose ==
    /\ pc = "diagnose"
    /\ label' = diagnose(row)
    /\ pc' = "diagnosed"
    /\ UNCHANGED <<df, weights, result, scaled_df, errors, outputs, calcCalls,
                   recommendation, language, voice, crashed, row>>

NextDiagnose == Diagnose
SpecDiagnose == InitDiagnose /\ [][NextDiagnose]_vars

(***************************************************************************)
(* The recommendation helpers.                                             *)
(***************************************************************************)
get_recommendation(score, lang) ==
    IF RLt(score, <<3, 10>>)
    THEN IF lang = "English" THEN "This plot is not suitable for grazing. Water is limited and vegetation is poor."
         ELSE "Wannan fili bai dace da kiwo ba. Babu ruwan sha sosai, kuma ganyen ciyawa ya ragu."
    ELSE IF RLt(score, <<5, 10>>)
    THEN IF lang = "English" THEN "This plot can be grazed cautiously. Monitor livestock load."
         ELSE "Za a iya kiwo a hankali a wannan fili. Amma a kula da yawancin shanu da za a kai."
    ELSE IF lang = "English" THEN "This is a very suitable plot for grazing. Water and forage are sufficient."
         ELSE "Wannan fili yana da kyau sosai don kiwo. Ruwan sha da ciyawa sun isa."

\* generate_openai_recommendation: the reply of the model, or the message
\* of the except branch when the call raises (its leading warning sign is
\* left out).
OpenAIReply == "reply of gpt-3.5-turbo"
OpenAIFallback == "OpenAI error: This is a demo."
generate_openai_recommendation(callFails) ==
    IF callFails THEN OpenAIFallback ELSE OpenAIReply

\* create_gss_map returns None unless both coordinates are columns.
HasMap(t) == {"latitude", "longitude"} \subseteq t.cols

(***************************************************************************)
(* The files a user may upload to main.                                    *)
(***************************************************************************)
RequiredCols == AllColumns

\* A good plot, a bad plot and a shrubby plot.
PlotPool == {<<Grade, 0, 0, 0>>, <<0, Grade, Grade, Grade>>, <<Grade, Grade, 0, 0>>}
CleanTables == UNION {{TableOf(fs) : fs \in [1..n -> PlotPool]} : n \in 0..MaxRows}

GeoChoices == {{}, {"latitude"}, {"latitude", "longitude"}}
WithGeo(t, geo) ==
    [t EXCEPT !.cols = t.cols \cup geo,
              !.rows = [i \in 1..Len(t.rows) |->
                          [c \in t.cols \cup geo |->
                              IF c \in geo THEN Num(i) ELSE t.rows[i][c]]]]

WithCell(t, i, c, v) == [t EXCEPT !.rows[i][c] = v]
WithoutColumn(t, c) ==
    [t EXCEPT !.cols = t.cols \ {c},
              !.rows = [i \in 1..Len(t.rows) |-> [k \in t.cols \ {c} |-> t.rows[i][k]]]]

\* A clean table, or one with an empty cell, a cell that is no number, or a
\* column left out.
Defects(t) ==
    {t}
    \cup {WithCell(t, i, c, NullCell) : i \in 1..Len(t.rows), c \in RequiredCols}
    \cup {WithCell(t, i, c, Text("abc")) : i \in 1..Len(t.rows), c \in Range(Features)}
    \cup {WithoutColumn(t, c) : c \in RequiredCols}
Uploads == UNION {Defects(WithGeo(t, geo)) : t \in CleanTables, geo \in GeoChoices}

(***************************************************************************)
(* Spec: one run of main.                                                  *)
(***************************************************************************)
Init ==
    /\ pc = "start"
    /\ df = EmptyTable
    /\ weights = NoWeights
    /\ row = NoRow
    /\ label = ""
    /\ Idle

Finish == pc' = "done"
Show(os) == outputs' = outputs \cup os
Report(msgs) == errors' = errors \o msgs

\* Lines 141, 230-232: no file has been uploaded.
NoFile ==
    /\ pc = "start"
    /\ Show({"info"})
    /\ Finish
    /\ UNCHANGED <<df, weights, result, scaled_df, errors, calcCalls,
                   recommendation, language, voice, crashed, row, label>>

\* Lines 142-150: reading the file raises.
ReadFails ==
    /\ pc = "start"
    /\ Report(<<"Failed to read file">>)
    /\ Finish
    /\ UNCHANGED <<df, weights, result, scaled_df, outputs, calcCalls,
                   recommendation, language, voice, crashed, row, label>>

\* Lines 142-147: the file is read.
ReadFile ==
    /\ pc = "start"
    /\ df' \in Uploads
    /\ Show({"success"})
    /\ pc' = "check_columns"
    /\ UNCHANGED <<weights, result, scaled_df, errors, calcCalls,
                   recommendation, language, voice, crashed, row, label>>

\* Lines 152-156.
MissingColumns(t) == RequiredCols \ t.cols
CheckColumns ==
    /\ pc = "check_columns"
    /\ IF MissingColumns(df) # {}
       THEN Report(<<"Missing columns">>) /\ Finish
       ELSE pc' = "check_nulls" /\ UNCHANGED errors
    /\ UNCHANGED <<df, weights, result, scaled_df, outputs, calcCalls,
                   recommendation, language, voice, crashed, row, label>>

\* Variant: only the four feature columns are searched for missing values.
HasMissingValues_features(t) ==
    \E c \in Range(Features) : \E i \in 1..Len(t.rows) : IsNull(t.rows[i][c])
\* Lines 158-160: df[required_cols].isnull().any().any()
HasMissingValues(t) ==
    \E c \in RequiredCols : \E i \in 1..Len(t.rows) : IsNull(t.rows[i][c])
CheckNulls ==
    /\ pc = "check_nulls"
    /\ IF HasMissingValues(df)
       THEN Report(<<"missing values in required columns">>) /\ Finish
       ELSE pc' = "calculate" /\ UNCHANGED errors
    /\ UNCHANGED <<df, weights, result, scaled_df, outputs, calcCalls,
                   recommendation, language, voice, crashed, row, label>>

\* Lines 162-163: result = calculate_gss(df)
Calculate ==
    /\ pc = "calculate"
    /\ LET r == calculate_gss(df, NoWeights)
       IN  /\ result' = r.result
           /\ scaled_df' = r.scaled
           /\ Report(r.errors)
    /\ calcCalls' = calcCalls + 1
    /\ pc' = "check_result"
    /\ UNCHANGED <<df, weights, outputs, recommendation, language, voice, crashed, row, label>>

\* Lines 165-166.
CheckResult ==
    /\ pc = "check_result"
    /\ IF IsEmpty(result) THEN Finish ELSE pc' = "show"
    /\ UNCHANGED <<df, weights, result, scaled_df, errors, outputs, calcCalls,
                   recommendation, language, voice, crashed, row, label>>

\* Lines 168-188: the first rows are shown and the chosen export is offered.
ShowAndExport ==
    /\ pc = "show"
    /\ \E download_option \in {"export_full", "export_minimal"} :
          Show({"head", download_option})
    /\ pc' = "recommend"
    /\ UNCHANGED <<df, weights, result, scaled_df, errors, calcCalls,
                   recommendation, language, voice, crashed, row, label>>

\* Lines 191-205: the recommendation for the selected plot.
SelectedRow(selected_plot) ==
    result.rows[CHOOSE i \in 1..Len(result.rows) :
                   /\ result.rows[i]["Plot Name"] = selected_plot
                   /\ \A k \in 1..(i - 1) : result.rows[k]["Plot Name"] # selected_plot]
Recommend ==
    /\ pc = "recommend"
    /\ \E lang \in {"English", "Hausa"} :
       \E selected_plot \in {result.rows[i]["Plot Name"] : i \in 1..Len(result.rows)} :
       \E use_openai \in BOOLEAN :
       \E callFails \in BOOLEAN :
          /\ language' = lang
          /\ recommendation' =
                IF use_openai THEN generate_openai_recommendation(callFails)
                ELSE get_recommendation(CellRat(SelectedRow(selected_plot)["GSS"]), lang)
    /\ Show({"recommendation"})
    /\ pc' = "voice"
    /\ UNCHANGED <<df, weights, result, scaled_df, errors, calcCalls, voice, crashed, row, label>>

\* Lines 207-211: the button is not pressed, or gTTS synthesises the text,
\* or gTTS raises; nothing in main catches it and the run ends there.
PlayVoice ==
    /\ pc = "voice"
    /\ \/ /\ voice' = "not pressed"
          /\ pc' = "map"
          /\ UNCHANGED <<outputs, crashed>>
       \/ /\ voice' = "played"
          /\ Show({"audio"})
          /\ pc' = "map"
          /\ UNCHANGED crashed
       \/ /\ voice' = "failed"
          /\ crashed' = TRUE
          /\ Finish
          /\ UNCHANGED outputs
    /\ UNCHANGED <<df, weights, result, scaled_df, errors, calcCalls,
                   recommendation, language, row, label>>

\* Lines 214-217.
RenderMap ==
    /\ pc = "map"
    /\ IF HasMap(result) THEN Show({"map"}) ELSE UNCHANGED outputs
    /\ pc' = "charts"
    /\ UNCHANGED <<df, weights, result, scaled_df, errors, calcCalls,
                   recommendation, language, voice, crashed, row, label>>

\* Lines 219-228.
RenderCharts ==
    /\ pc = "charts"
    /\ Show({"chart", "top5", "bottom5"})
    /\ Finish
    /\ UNCHANGED <<df, weights, result, scaled_df, errors, calcCalls,
                   recommendation, language, voice, crashed, row, label>>

Next ==
    \/ NoFile
    \/ ReadFails
    \/ ReadFile
    \/ CheckColumns
    \/ CheckNulls
    \/ Calculate
    \/ CheckResult
    \/ ShowAndExport
    \/ Recommend
    \/ PlayVoice
    \/ RenderMap
    \/ RenderCharts

Spec == Init /\ [][Next]_vars

(***************************************************************************)
(* What the claims are stated in: the rule list of the diagnosis, the      *)
(* min-max formula, the score read off the result table.                   *)
(***************************************************************************)
RuleHolds(k, gss, shrub, grazing, woody) ==
    CASE k = 1 -> RLt(gss, <<3, 10>>) /\ RGt(shrub, <<7, 10>>)
      [] k = 2 -> RLt(gss, <<3, 10>>) /\ RGt(grazing, <<7, 10>>)
      [] k = 3 -> RLt(gss, <<3, 10>>) /\ RGt(woody, <<7, 10>>)
      [] k = 4 -> RLt(gss, <<3, 10>>)
      [] k = 5 -> RLe(<<3, 10>>, gss) /\ RLt(gss, <<1, 2>>)
      [] k = 6 -> RLe(<<1, 2>>, gss) /\ RLt(gss, <<3, 4>>)
      [] k = 7 -> RLe(<<3, 4>>, gss)
RuleLabels ==
    <<"Too much shrub cover", "Excessive grazing pressure", "High woody plant density",
      "Very low biomass", "Poor condition, needs intervention", "Moderately suitable",
      "Highly suitable">>
\* The label of the first rule that holds.
IsFirstMatch(lbl, gss, shrub, grazing, woody) ==
    \E k \in 1..7 :
        /\ RuleHolds(k, gss, shrub, grazing, woody)
        /\ \A j \in 1..(k - 1) : ~RuleHolds(j, gss, shrub, grazing, woody)
        /\ lbl = RuleLabels[k]

RawValue(t, j, i) == t.rows[i][Features[j]].n
ColumnMin(t, j) ==
    CHOOSE m \in {RawValue(t, j, i) : i \in 1..Len(t.rows)} :
        \A i \in 1..Len(t.rows) : m <= RawValue(t, j, i)
ColumnMax(t, j) ==
    CHOOSE m \in {RawValue(t, j, i) : i \in 1..Len(t.rows)} :
        \A i \in 1..Len(t.rows) : m >= RawValue(t, j, i)
IsConstant(t, j) == ColumnMin(t, j) = ColumnMax(t, j)
\* (raw - min) / (max - min); fallback where the column is constant.
MinMax(t, j, i, fallback) ==
    IF IsConstant(t, j) THEN fallback
    ELSE Norm(RawValue(t, j, i) - ColumnMin(t, j), ColumnMax(t, j) - ColumnMin(t, j))

GivenWeights == IF weights = NoWeights THEN W(<<2, 5>>, <<1, 5>>, <<1, 5>>, <<1, 5>>) ELSE weights
\* w.biomass*nb + w.shrub*(1-ns) + w.grazing*(1-ng) + w.woody*(1-nw)
WeightedSum(w, nb, ns, ng, nw) ==
    RAdd(RAdd(RAdd(RMul(w.biomass, nb), RMul(w.shrub, RSub(One, ns))),
              RMul(w.grazing, RSub(One, ng))),
         RMul(w.woody, RSub(One, nw)))
FormulaGss(t, i, fallback) ==
    WeightedSum(GivenWeights, MinMax(t, 1, i, fallback), MinMax(t, 2, i, fallback),
                MinMax(t, 3, i, fallback), MinMax(t, 4, i, fallback))

Returned == pc = "returned"
Succeeded == Returned /\ errors = <<>> /\ Len(result.rows) = Len(df.rows)
Rows == 1..Len(df.rows)
GssOf(i) == CellRat(result.rows[i]["GSS"])
DiagnosisOf(i) == result.rows[i]["Diagnosis"].s

(***************************************************************************)
(* The claims on diagnose and calculate_gss.                               *)
(***************************************************************************)
\* C1: for every GSS and every normalized shrub, grazing and woody value in
\* [0,1], diagnose returns the label of the first rule that holds in the
\* order shrub, grazing, woody, very low, poor, moderate, high; the lower
\* bound of each bracket is inclusive (0.3 is poor, 0.75 is highly suitable).
C1_FirstMatchingRule ==
    pc = "diagnosed" =>
        /\ IsFirstMatch(label, row.GSS, row.shrub_raw, row.grazing_raw, row.woody_raw)
        /\ REq(row.GSS, <<3, 10>>) => label = "Poor condition, needs intervention"
        /\ REq(row.GSS, <<3, 4>>) => label = "Highly suitable"
\* A low score with all three causes present is put down to shrub cover.
C1_Witness ==
    /\ pc = "diagnosed"
    /\ RLt(row.GSS, <<3, 10>>)
    /\ RGt(row.shrub_raw, <<7, 10>>)
    /\ RGt(row.grazing_raw, <<7, 10>>)
    /\ RGt(row.woody_raw, <<7, 10>>)
    /\ label = "Too much shrub cover"

\* C2: for a non-empty table and weights that are non-negative and sum to 1,
\* every record gets a GSS, and it lies in [0,1].
NonNegative(w) ==
    /\ RLe(Zero, w.biomass)
    /\ RLe(Zero, w.shrub)
    /\ RLe(Zero, w.grazing)
    /\ RLe(Zero, w.woody)
SumsToOne(w) == REq(RAdd(RAdd(RAdd(w.biomass, w.shrub), w.grazing), w.woody), One)
ScaledNames == <<"biomass_score", "shrub_raw", "grazing_raw", "woody_raw">>
C6_ConstantColumnFallback ==
    (Returned /\ Len(df.rows) > 0 /\ \E j \in 1..4 : IsConstant(df, j)) =>
        /\ errors = <<>>
        /\ Len(scaled_df) = Len(df.rows)
        /\ Len(result.rows) = Len(df.rows)
        /\ \A j \in {k \in 1..4 : IsConstant(df, k)} :
              LET v == scaled_df[1][ScaledNames[j]]
              IN  /\ RLe(Zero, v) /\ RLe(v, One)
                  /\ \A i \in Rows : scaled_df[i][ScaledNames[j]] = v
                  /\ \A i \in Rows : REq(GssOf(i), FormulaGss(df, i, v))
        /\ \A i \in Rows :
              IsFirstMatch(DiagnosisOf(i), GssOf(i), scaled_df[i].shrub_raw,
                           scaled_df[i].grazing_raw, scaled_df[i].woody_raw)
\* A single row under the default weights: every feature falls back to 0,
\* the score is 0.2 + 0.2 + 0.2.
C6_Witness ==
    /\ Succeeded
    /\ Len(df.rows) = 1
    /\ weights = NoWeights
    /\ GssOf(1) = <<3, 5>>
    /\ DiagnosisOf(1) = "Moderately suitable"

\* C7: on success the result has one row per input record, in input order;
\* row i holds the fields of record i unchanged, and the GSS and Diagnosis of
\* that record, whatever the row labels of the input.
C7_RowsInInputOrder ==
    (Returned /\ errors = <<>>) =>
        /\ Len(result.rows) = Len(df.rows)
        /\ \A i \in Rows :
              /\ \A c \in df.cols : result.rows[i][c] = df.rows[i][c]
              /\ REq(GssOf(i), FormulaGss(df, i, Zero))
              /\ IsFirstMatch(DiagnosisOf(i), FormulaGss(df, i, Zero), MinMax(df, 2, i, Zero),
                              MinMax(df, 3, i, Zero), MinMax(df, 4, i, Zero))
\* Two records with different scores in a table labelled in reverse.
C7_Witness ==
    /\ Succeeded
    /\ Len(df.rows) = 2
    /\ df.index = <<1, 0>>
    /\ GssOf(1) = One
    /\ GssOf(2) = Zero

C10_VeryLowMeansLowBiomass ==
    (Returned /\ weights = NoWeights /\ errors = <<>>) =>
        \A i \in 1..Len(result.rows) :
            DiagnosisOf(i) = "Very low biomass" => RLt(MinMax(df, 1, i, Zero), <<3, 10>>)
\* A record with two tenths of the biomass range labelled 'Very low biomass'.
C10_Witness ==
    /\ Succeeded
    /\ weights = NoWeights
    /\ \E i \in Rows :
          /\ DiagnosisOf(i) = "Very low biomass"
          /\ MinMax(df, 1, i, Zero) = <<1, 5>>

(***************************************************************************)
(* The claims on main.                                                     *)
(***************************************************************************)
Required == {"Plot Name", "available_biomass", "Shrub %", "grazing_pressure", "total woody count"}
Artifacts == {"head", "export_full", "export_minimal", "recommendation", "audio",
              "map", "chart", "top5", "bottom5"}
\* The file was read into df.
Uploaded == "success" \in outputs
LacksRequiredColumn == Uploaded /\ ~(Required \subseteq df.cols)
HasNullIn(c) == c \in df.cols /\ \E i \in Rows : IsNull(df.rows[i][c])
HasTextFeature ==
    \E c \in Range(Features) \cap df.cols : \E i \in Rows : IsText(df.rows[i][c])
ComputationErrorReported == "Error during GSS calculation" \in Range(errors)

\* C3: when the uploaded table lacks a required column or has a missing value
\* in a required column, main reports an error and stops: calculate_gss is
\* not called and no result, export, recommendation, map or chart is made.
C3_InvalidUploadStops ==
    (LacksRequiredColumn \/ \E c \in Required : HasNullIn(c)) =>
        /\ pc \in {"check_columns", "check_nulls", "done"}
        /\ calcCalls = 0
        /\ result = EmptyTable
        /\ outputs \cap Artifacts = {}
        /\ ~crashed
        /\ pc = "done" => Len(errors) = 1 /\ ~ComputationErrorReported
\* A run that ended on a missing value in grazing_pressure.
C3_Witness ==
    /\ pc = "done"
    /\ HasNullIn("grazing_pressure")
    /\ errors = <<"missing values in required columns">>
    /\ calcCalls = 0
    /\ outputs \cap Artifacts = {}

\* C4: a table with every required column and no record is rejected by
\* validation before any computation: calculate_gss is not entered for it
\* and no computation error is reported.
C4_EmptyUploadRejectedByValidation ==
    (Uploaded /\ Required \subseteq df.cols /\ Len(df.rows) = 0) =>
        /\ calcCalls = 0
        /\ ~ComputationErrorReported
        /\ pc = "done" => errors # <<>>

\* C5: when a step of calculate_gss fails, the failure is reported, the
\* result is the empty table and never a partly filled one, and main stops
\* without export, recommendation, map or chart.
C5_FailClosed ==
    calcCalls > 0 =>
        /\ (Len(df.rows) = 0 \/ HasTextFeature) =>
              /\ result = EmptyTable
              /\ ComputationErrorReported
              /\ pc \in {"check_result", "done"}
              /\ outputs \cap Artifacts = {}
              /\ ~crashed
        /\ \/ result = EmptyTable
           \/ /\ Len(result.rows) = Len(df.rows)
              /\ result.cols = df.cols \cup {"GSS", "Diagnosis"}
              /\ \A i \in Rows : ~IsNull(result.rows[i]["GSS"])
                                   /\ IsText(result.rows[i]["Diagnosis"])
\* A run that ended after a feature cell that is no number made the scaler raise.
C5_Witness ==
    /\ pc = "done"
    /\ calcCalls = 1
    /\ HasTextFeature
    /\ Len(df.rows) > 0
    /\ result = EmptyTable
    /\ ComputationErrorReported

\* C8: a failure of the language-model call or of the audio synthesis never
\* ends the run and never changes the result: no exception escapes, and the
\* map, chart and top/bottom tables are still made from the same result.
C8_CollaboratorFailuresIsolated ==
    (recommendation = OpenAIFallback \/ voice = "failed") =>
        /\ ~crashed
        /\ result = calculate_gss(df, NoWeights).result
        /\ pc = "done" => {"chart", "top5", "bottom5"} \subseteq outputs

====
